---- MODULE Spec2Model ----
(***************************************************************************)
(* Model of src/mcpandstreamlit.py: the Streamlit data-quality assistant.  *)
(*                                                                         *)
(* Text is modelled character by character: a Python str is a TLA+ string, *)
(* and the str / re operations the program uses (split, strip, splitlines, *)
(* startswith, re.split on a lookahead, re.search) are operators over the  *)
(* characters, computed the way Python computes them.                      *)
(*                                                                         *)
(* Two specifications share the module:                                    *)
(*   ParseSpec  extract_issues_from_txt applied to bounded blobs, and the  *)
(*              Apply Fix click on the records it returns                  *)
(*   Spec       the analysis runs of a session on the persisted file       *)
(***************************************************************************)
EXTENDS Integers, Sequences, FiniteSets, TLC

VARIABLES
    output_txt,   \* the file at path output_txt: [exists, content]
    issues,       \* st.session_state.issues
    llm_output,   \* st.session_state.llm_output
    shown,        \* the strategy of the last Apply Fix click and the st.code text it showed
    raised,       \* the exception that ended the last handler, "none" if it returned
    backend,      \* what the collaborators answered during the last analysis run
    doc,          \* ParseSpec: the structured document the blob was rendered from
    parsed        \* ParseSpec: extract_issues_from_txt has run on the blob

vars == <<output_txt, issues, llm_output, shown, raised, backend, doc, parsed>>

(***************************************************************************)
(* Python str operations                                                   *)
(***************************************************************************)

\* Characters str.strip() removes. The model's texts hold no other whitespace.
Whitespace == {" ", "\n", "\t", "\r"}

Min(S) == CHOOSE i \in S : \A j \in S : i <= j

\* s[i:] in Python with i 0-based is From(s, i + 1).
From(s, i) == SubSeq(s, i, Len(s))

\* s.startswith(p)
StartsWith(s, p) == Len(p) <= Len(s) /\ SubSeq(s, 1, Len(p)) = p

\* 1-based positions at which p occurs in s.
Occurrences(s, p) ==
    {i \in 1..(Len(s) - Len(p) + 1) : SubSeq(s, i, i + Len(p) - 1) = p}

\* s.find(p) + 1: the first position of p in s, 0 when p does not occur.
Find(s, p) == IF Occurrences(s, p) = {} THEN 0 ELSE Min(Occurrences(s, p))

\* p in s
Contains(s, p) == Occurrences(s, p) # {}

RECURSIVE LStrip(_)
LStrip(s) ==
    IF s = "" THEN ""
    ELSE IF Head(s) \in Whitespace THEN LStrip(Tail(s)) ELSE s

RECURSIVE RStrip(_)
RStrip(s) ==
    IF s = "" THEN ""
    ELSE IF SubSeq(s, Len(s), Len(s)) \in Whitespace
         THEN RStrip(SubSeq(s, 1, Len(s) - 1))
         ELSE s

\* s.strip()
Strip(s) == RStrip(LStrip(s))

\* s.split(sep): cut at the non-overlapping occurrences of sep, left to right.
RECURSIVE Split(_, _)
Split(s, sep) ==
    LET i == Find(s, sep)
    IN  IF i = 0 THEN <<s>>
        ELSE <<SubSeq(s, 1, i - 1)>> \o Split(From(s, i + Len(sep)), sep)

\* s.splitlines(), for texts whose only line terminator is "\n".
RECURSIVE SplitLines(_)
SplitLines(s) ==
    IF s = "" THEN <<>>
    ELSE LET i == Find(s, "\n")
         IN  IF i = 0 THEN <<s>>
             ELSE <<SubSeq(s, 1, i - 1)>> \o SplitLines(From(s, i + 1))

(***************************************************************************)
(* extract_issues_from_txt                                                 *)
(***************************************************************************)

HeaderFile  == "Analysis for file:"
HeaderTable == "Analysis for table:"

\* Positions >= from where the lookahead (?=Analysis for file:|Analysis for table:)
\* matches.
HeaderPositions(s, from) ==
    {i \in (Occurrences(s, HeaderFile) \cup Occurrences(s, HeaderTable)) : i >= from}

\* re.split on the zero-width lookahead: s is cut before every match; a match
\* at the very start leaves an empty first piece.
RECURSIVE SplitAtHeaders(_, _)
SplitAtHeaders(s, from) ==
    IF HeaderPositions(s, from) = {} THEN <<s>>
    ELSE LET i == Min(HeaderPositions(s, from))
         IN  <<SubSeq(s, 1, i - 1)>> \o SplitAtHeaders(From(s, i), 2)

\* sections = re.split(r"(?=Analysis for file:|Analysis for table:)", content)
Sections(content) == SplitAtHeaders(content, 1)

\* if "Analysis for file:" in section or "Analysis for table:" in section
HasHeader(section) == Contains(section, HeaderFile) \/ Contains(section, HeaderTable)

\* The text "." matches greedily: up to the next "\n" or the end.
RestOfLine(s) ==
    LET i == Find(s, "\n") IN IF i = 0 THEN s ELSE SubSeq(s, 1, i - 1)

\* re.search(r"Analysis for (file|table): (.*)", section); group(2).strip(),
\* "Unknown" when the pattern (which needs the blank after the colon) is absent.
OwningFile(section) ==
    LET hits == [p \in {HeaderFile \o " ", HeaderTable \o " "} |-> Occurrences(section, p)]
        all  == UNION {hits[p] : p \in DOMAIN hits}
    IN  IF all = {} THEN "Unknown"
        ELSE LET i == Min(all)
                 p == CHOOSE q \in DOMAIN hits : i \in hits[q]
             IN  Strip(RestOfLine(From(section, i + Len(p))))

\* issue[key] = value on a dict
SetKey(issue, key, value) == (key :> value) @@ issue

\* line.split(marker)[1].strip()
AfterMarker(line, marker) == Strip(Split(line, marker)[2])

\* One pass of the if/elif chain over a line of the block.
ScanLine(issue, line) ==
    IF StartsWith(line, "- **Issue:**")
        THEN SetKey(issue, "title", AfterMarker(line, "**Issue:**"))
    ELSE IF StartsWith(line, "- Details:")
        THEN SetKey(issue, "details", AfterMarker(line, "Details:"))
    ELSE IF StartsWith(line, "- Expected correct state:")
        THEN SetKey(issue, "expected", AfterMarker(line, "Expected correct state:"))
    ELSE IF StartsWith(line, "- Violated constraint:")
        THEN SetKey(issue, "constraint", AfterMarker(line, "Violated constraint:"))
    ELSE IF StartsWith(line, "- Location:")
        THEN SetKey(issue, "location", AfterMarker(line, "Location:"))
    ELSE issue

\* for line in block.splitlines(): ...
RECURSIVE ScanLines(_, _)
ScanLines(issue, lines) ==
    IF lines = <<>> THEN issue
    ELSE ScanLines(ScanLine(issue, Head(lines)), Tail(lines))

\* issue = {"file": filename}, then the scan of the stripped block.
ScanBlock(filename, block) ==
    ScanLines([file |-> filename], SplitLines(block))

\* issue_blocks = section.split("---")
IssueBlocks(section) == Split(section, "---")

\* KeepIssue without its test: every scanned sub-block is appended.
KeepIssueAlways(found, issue) == Append(found, issue)

\* if "title" in issue: issues.append(issue)
KeepIssue(found, issue) ==
    IF "title" \in DOMAIN issue THEN Append(found, issue) ELSE found

\* for block in issue_blocks: block = block.strip(); if block: ...
RECURSIVE ScanBlocks(_, _, _)
ScanBlocks(found, filename, blocks) ==
    IF blocks = <<>> THEN found
    ELSE LET block == Strip(Head(blocks))
         IN  ScanBlocks(IF block # ""
                            THEN KeepIssue(found, ScanBlock(filename, block))
                            ELSE found,
                        filename, Tail(blocks))

\* for section in sections: only a section that holds a header is looked at.
RECURSIVE ScanSections(_, _)
ScanSections(found, sections) ==
    IF sections = <<>> THEN found
    ELSE LET section == Head(sections)
         IN  ScanSections(IF HasHeader(section)
                              THEN ScanBlocks(found, OwningFile(section),
                                              IssueBlocks(section))
                              ELSE found,
                          Tail(sections))

\* extract_issues_from_txt(txt_file). open() of a missing file raises inside
\* the try: st.error is shown and the empty list is returned.
extract_issues_from_txt(f) ==
    IF ~f.exists THEN <<>> ELSE ScanSections(<<>>, Sections(f.content))

(***************************************************************************)
(* Bounded narrative documents for ParseSpec: a document is a short        *)
(* sequence of items, each a section header or an issue sub-block; it is   *)
(* rendered to text in the layout the program's prompts ask the backend    *)
(* for (field lines, every sub-block closed by a line "---").              *)
(***************************************************************************)

MaxItems == 3

Fields == {"title", "details", "expected", "constraint", "location"}

FieldLabel(field) ==
    CASE field = "title"      -> "Issue"
      [] field = "details"    -> "Details"
      [] field = "expected"   -> "Expected correct state"
      [] field = "constraint" -> "Violated constraint"
      [] field = "location"   -> "Location"

\* The marker of a field line in the plain and in the emphasized form.
Marker(field, style) ==
    IF style = "bold" THEN "**" \o FieldLabel(field) \o ":**"
    ELSE FieldLabel(field) \o ":"

L(field, style, value) == [field |-> field, style |-> style, value |-> value]

RenderLine(l) ==
    IF l.field = "prose" THEN l.value \o "\n"
    ELSE "- " \o Marker(l.field, l.style) \o " " \o l.value \o "\n"

Header(word, name) == [kind |-> "header", word |-> word, name |-> name, lines |-> <<>>]
Block(lines)       == [kind |-> "block", word |-> "", name |-> "", lines |-> lines]

\* All five fields, in the forms the parser's startswith tests name.
BlockCanonical ==
    Block(<<L("title", "bold", "Dup rows"), L("details", "plain", "3 keys"),
            L("expected", "plain", "unique"), L("constraint", "plain", "PK"),
            L("location", "plain", "row 4")>>)
\* All five fields, each in the other form.
BlockOtherForm ==
    Block(<<L("title", "plain", "Null ids"), L("details", "bold", "ids empty"),
            L("expected", "bold", "filled"), L("constraint", "bold", "NN"),
            L("location", "bold", "col 1")>>)
BlockNoTitle    == Block(<<L("prose", "", "Summary"), L("details", "plain", "orphan")>>)
BlockTitleOnly  == Block(<<L("title", "bold", "Bad date")>>)
BlockTwice      == Block(<<L("title", "bold", "Old"), L("title", "bold", "New")>>)
BlockTableRule  ==
    Block(<<L("title", "bold", "Gap"), L("prose", "", "|---|---|"),
            L("location", "plain", "col 2")>>)
BlockMarkerInValue ==
    Block(<<L("title", "bold", "Ref"), L("details", "plain", "see Details: below")>>)
BlockHeaderInValue ==
    Block(<<L("title", "bold", "Link"),
            L("details", "plain", "see Analysis for file: b.csv"),
            L("location", "plain", "row 9")>>)

Items ==
    {Header("file", "a.csv"), Header("table", "orders"),
     BlockCanonical, BlockOtherForm, BlockNoTitle, BlockTitleOnly, BlockTwice,
     BlockTableRule, BlockMarkerInValue, BlockHeaderInValue}

Docs == UNION {[1..n -> Items] : n \in 0..MaxItems}

RECURSIVE RenderLines(_)
RenderLines(lines) ==
    IF lines = <<>> THEN "" ELSE RenderLine(Head(lines)) \o RenderLines(Tail(lines))

RenderItem(item) ==
    IF item.kind = "header"
        THEN "Analysis for " \o item.word \o ": " \o item.name \o "\n"
    ELSE RenderLines(item.lines) \o "---\n"

RECURSIVE Render(_)
Render(d) == IF d = <<>> THEN "" ELSE RenderItem(Head(d)) \o Render(Tail(d))

NoFix      == [strategy |-> "none", code |-> <<>>]
NoBackend  == [mode |-> "none", connected |-> FALSE, names |-> <<>>,
               cross |-> [kind |-> "none", content |-> ""], tables |-> <<>>]

ParseInit ==
    /\ doc \in Docs
    /\ output_txt = [exists |-> TRUE, content |-> Render(doc)]
    /\ issues = <<>>
    /\ parsed = FALSE
    /\ llm_output = ""
    /\ shown = NoFix
    /\ raised = "none"
    /\ backend = NoBackend

\* issues = extract_issues_from_txt(output_txt) on the rendered blob.
ExtractFromBlob ==
    /\ ~parsed
    /\ parsed' = TRUE
    /\ issues' = extract_issues_from_txt(output_txt)
    /\ UNCHANGED <<output_txt, llm_output, shown, raised, backend, doc>>

CustomTexts == {"", "drop rows"}

\* The st.code text of a strategy; issue['details'] of a record without the
\* key raises KeyError.
FixFails(issue, strategy) == strategy = "Add comment" /\ "details" \notin DOMAIN issue

FixCode(issue, strategy, custom_fix) ==
    CASE strategy = "Auto-fix"    -> "# Auto-fixed: " \o issue.title
      [] strategy = "Add comment" -> "# TODO: Review issue: " \o issue.details
      [] strategy = "Custom"      -> "# Custom Fix: " \o custom_fix

\* Click on "Apply Fix" with an issue selected in the sidebar.
ApplyFix ==
    /\ issues # <<>>
    /\ \E idx \in DOMAIN issues, strategy \in {"Auto-fix", "Add comment", "Custom"} :
       \E custom_fix \in (IF strategy = "Custom" THEN CustomTexts ELSE {""}) :
          /\ raised' = IF FixFails(issues[idx], strategy) THEN "KeyError" ELSE "none"
          /\ shown' = [strategy |-> strategy,
                       code |-> IF FixFails(issues[idx], strategy) THEN <<>>
                                ELSE <<FixCode(issues[idx], strategy, custom_fix)>>]
    /\ UNCHANGED <<output_txt, issues, llm_output, backend, doc, parsed>>

ParseNext == ExtractFromBlob \/ ApplyFix

ParseSpec == ParseInit /\ [][ParseNext]_vars

\* C10: Apply Fix, with any strategy on any record the parser returned, shows
\* one textual artifact, raises nothing, and leaves the issue list and the
\* narrative file as they were.
C10_FixAlwaysYieldsArtifact ==
    shown.strategy # "none" =>
        /\ raised = "none"
        /\ Len(shown.code) = 1
        /\ issues = extract_issues_from_txt(output_txt)
        /\ output_txt = [exists |-> TRUE, content |-> Render(doc)]

(***************************************************************************)
(* What a document says, read off its structure (not off its text): the    *)
(* records the narrative describes, against which the parser's result is   *)
(* compared.                                                               *)
(***************************************************************************)

HasTitle(item) == \E i \in DOMAIN item.lines : item.lines[i].field = "title"

\* The record a sub-block describes: one key per field line, the last line of a
\* field giving its value.
RECURSIVE DescribedRecord(_, _)
DescribedRecord(rec, lines) ==
    IF lines = <<>> THEN rec
    ELSE LET l == Head(lines)
         IN  DescribedRecord(IF l.field = "prose" THEN rec
                             ELSE (l.field :> l.value) @@ rec,
                             Tail(lines))

\* The records of a document, in order; a sub-block before the first header
\* belongs to "Unknown".
RECURSIVE DescribedFrom(_, _, _)
DescribedFrom(found, owner, items) ==
    IF items = <<>> THEN found
    ELSE LET item == Head(items)
         IN  IF item.kind = "header"
                 THEN DescribedFrom(found, item.name, Tail(items))
             ELSE DescribedFrom(IF HasTitle(item)
                                    THEN Append(found,
                                                DescribedRecord([file |-> owner], item.lines))
                                    ELSE found,
                                owner, Tail(items))

Described(d) == DescribedFrom(<<>>, "Unknown", d)

\* Shapes of documents. Each claim is about the documents of one shape.
AllLines(d, P(_)) ==
    \A i \in DOMAIN d : \A j \in DOMAIN d[i].lines : P(d[i].lines[j])

StartsWithHeader(d) == d # <<>> /\ d[1].kind = "header"
EveryBlockTitled(d) == \A i \in DOMAIN d : d[i].kind = "block" => HasTitle(d[i])

\* The form the parser's startswith tests name: emphasized title, plain others.
InParserForm(l) ==
    l.field = "prose" \/ l.style = (IF l.field = "title" THEN "bold" ELSE "plain")
NoDashes(l)    == ~Contains(l.value, "---")
NotARuleLine(l) == Strip(l.value) # "---"
NoHeaderText(l) == ~Contains(l.value, "Analysis for")
HeaderTextNotAtLineStart(l) ==
    l.field = "prose" => ~StartsWith(l.value, "Analysis for")
NoMarkerText(l) == \A f \in Fields : ~Contains(l.value, FieldLabel(f) \o ":")

PlainValue(l) == NoDashes(l) /\ NoHeaderText(l) /\ NoMarkerText(l)
TidyLine(l)   == InParserForm(l) /\ PlainValue(l)

Keyed(found, owner) == SelectSeq(found, LAMBDA r : r.file = owner)

\* C1: a blob serialized from N issue records, field lines in any mix of the
\* plain and the emphasized form, parses back to exactly those N records.
C1_BothFormsRoundTrip ==
    (parsed /\ StartsWithHeader(doc) /\ EveryBlockTitled(doc) /\ AllLines(doc, PlainValue))
        => issues = Described(doc)

\* C3: the sub-blocks that precede the first header come back as records
\* owned by "Unknown".
C3_PreambleOwnedByUnknown ==
    (parsed /\ AllLines(doc, TidyLine) /\ \E i \in DOMAIN doc : doc[i].kind = "header")
        => Keyed(issues, "Unknown") = Keyed(Described(doc), "Unknown")

\* C4: the stored value is the whole remainder of the line after the marker,
\* trimmed, also when the remainder contains the marker text again.
C4_WholeRemainderOfLine ==
    (parsed /\ StartsWithHeader(doc)
        /\ AllLines(doc, LAMBDA l : InParserForm(l) /\ NoDashes(l) /\ NoHeaderText(l)))
        => issues = Described(doc)

\* C5: only a line that is "---" and nothing else ends a sub-block; "---"
\* inside a longer line leaves the fields around it in one record.
C5_OnlyRuleLinesSeparate ==
    (parsed /\ StartsWithHeader(doc)
        /\ AllLines(doc, LAMBDA l : InParserForm(l) /\ NotARuleLine(l)
                                    /\ NoHeaderText(l) /\ NoMarkerText(l)))
        => issues = Described(doc)

\* C9: header text in the middle of a line starts no section: the sub-block
\* keeps its fields and the owner of the enclosing section.
C9_SectionsStartAtLineStart ==
    (parsed /\ StartsWithHeader(doc)
        /\ AllLines(doc, LAMBDA l : InParserForm(l) /\ NoDashes(l)
                                    /\ HeaderTextNotAtLineStart(l) /\ NoMarkerText(l)))
        => issues = Described(doc)

(***************************************************************************)
(* C2, over every blob: the sub-blocks the parser scans are the non-blank  *)
(* pieces of the sections that hold a header.                              *)
(***************************************************************************)

SubBlocksOf(section) ==
    LET pieces == IssueBlocks(section)
        all    == [i \in DOMAIN pieces |->
                      [file |-> OwningFile(section), block |-> Strip(pieces[i])]]
    IN  SelectSeq(all, LAMBDA b : b.block # "")

RECURSIVE SubBlocksIn(_)
SubBlocksIn(sections) ==
    IF sections = <<>> THEN <<>>
    ELSE (IF HasHeader(Head(sections)) THEN SubBlocksOf(Head(sections)) ELSE <<>>)
         \o SubBlocksIn(Tail(sections))

TitleLines(block) ==
    {i \in DOMAIN SplitLines(block) : StartsWith(SplitLines(block)[i], "- **Issue:**")}

TitleRecognized(b) == TitleLines(b.block) # {}

RecognizedTitle(b) ==
    LET k == CHOOSE i \in TitleLines(b.block) : \A j \in TitleLines(b.block) : j <= i
    IN  Strip(From(SplitLines(b.block)[k], Len("- **Issue:**") + 1))

\* C2: the result is, in order, one record per scanned sub-block with a
\* recognized title line: every record has a title, a sub-block without one
\* gives no record, nothing is reordered or duplicated.
C2_OneRecordPerTitledSubBlock ==
    parsed =>
        LET scanned == SubBlocksIn(Sections(output_txt.content))
            titled  == SelectSeq(scanned, TitleRecognized)
        IN  /\ Len(issues) = Len(titled)
            /\ \A i \in DOMAIN issues :
                  /\ "title" \in DOMAIN issues[i]
                  /\ issues[i].file = titled[i].file
                  /\ issues[i].title = RecognizedTitle(titled[i])
            /\ (StartsWithHeader(doc) /\ AllLines(doc, TidyLine))
                  => issues = Described(doc)

\* Two records from different sub-blocks, in text order, with a scanned
\* sub-block that has no title line dropped.
C2_Witness ==
    /\ parsed
    /\ Len(issues) = 2
    /\ issues[1].title # issues[2].title
    /\ \E i \in DOMAIN SubBlocksIn(Sections(output_txt.content)) :
          ~TitleRecognized(SubBlocksIn(Sections(output_txt.content))[i])

(***************************************************************************)
(* The session: analysis runs. Apply Fix, which touches neither the file   *)
(* nor the issue list, is exercised in ParseSpec on every parsed record.   *)
(***************************************************************************)

\* "\n" + "=" * 80 + "\n"
Rule ==
    "\n" \o "========================================"
         \o "========================================" \o "\n"

\* What one backend call comes to. "exception": requests.post or
\* response.json() raised, or the reply has no message/content under
\* choices[0]; "no_choices" / "empty_choices": JSON without the key, or with
\* an empty array; "content": choices[0].message.content is this text (a
\* str: a JSON null there is not among the modelled replies).
Reply(kind, content) == [kind |-> kind, content |-> content]

NarrativeCross == "- **Issue:** Orphan keys\n- Details: orders without users\n"
NarrativeTable == "- **Issue:** Dup rows\n- Details: 3 keys\n"

\* Outcomes of the cross-file / cross-table call and of a per-table call.
CrossReplies ==
    {Reply("exception", ""), Reply("no_choices", ""), Reply("content", NarrativeCross)}
Replies ==
    {Reply("exception", ""), Reply("no_choices", ""), Reply("empty_choices", ""),
     Reply("content", " \n"), Reply("content", NarrativeTable)}

\* if "choices" in response_json and response_json["choices"]: ... with no
\* exception on the way to ["message"]["content"]
Answered(r) == r.kind = "content"

\* file_path = f"/tmp/{file.name}" for each uploaded file
Uploads == {<<"/tmp/a.csv", "/tmp/b.csv">>}

\* table_names of get_database_tables
TableLists == {<<"orders">>}

\* with open(output_txt, "w"): heading, llm_reply, rule
WriteCross(heading, r) == [exists |-> TRUE, content |-> heading \o r.content \o Rule]

\* The per-table loop: a call that is not answered is skipped (continue), an
\* answered one appends header line, llm_reply and rule.
RECURSIVE AppendSections(_, _, _, _)
AppendSections(f, prefix, names, answers) ==
    IF names = <<>> THEN f
    ELSE AppendSections(
             IF Answered(Head(answers))
                 THEN [f EXCEPT !.content =
                          @ \o prefix \o Head(names) \o "\n" \o Head(answers).content \o Rule]
                 ELSE f,
             prefix, Tail(names), Tail(answers))

\* analyze_csv_files(file_paths): the file it leaves. An unanswered cross-file
\* call returns [] before the file is opened.
analyze_csv_files(f, file_paths, cross, answers) ==
    IF ~Answered(cross) THEN f
    ELSE AppendSections(WriteCross("Cross-file Analysis:\n", cross),
                        "Analysis for file: ", file_paths, answers)

\* analyze_databricks_tables(...): the file it leaves. No connection, or an
\* unanswered cross-table call, returns [] before the file is opened.
analyze_databricks_tables(f, connected, table_names, cross, answers) ==
    IF ~connected \/ ~Answered(cross) THEN f
    ELSE AppendSections(WriteCross("Cross-table Analysis:\n", cross),
                        "Analysis for table: ", table_names, answers)

Init ==
    /\ output_txt = [exists |-> FALSE, content |-> ""]
    /\ issues = <<>>
    /\ llm_output = ""
    /\ shown = NoFix
    /\ raised = "none"
    /\ backend = NoBackend
    /\ doc = <<>>
    /\ parsed = FALSE

\* Click on "Analyze Uploaded Files".
AnalyzeUploadedFiles ==
    \E file_paths \in Uploads, cross \in CrossReplies :
    \E answers \in [DOMAIN file_paths -> Replies] :
        /\ output_txt' = analyze_csv_files(output_txt, file_paths, cross, answers)
        /\ issues' = extract_issues_from_txt(output_txt')
        /\ llm_output' = "Analysis complete. Issues extracted."
        /\ backend' = [mode |-> "csv", connected |-> TRUE, names |-> file_paths,
                       cross |-> cross, tables |-> answers]
        /\ shown' = NoFix
        /\ raised' = "none"
        /\ UNCHANGED <<doc, parsed>>

\* Click on "Connect & Analyze".
ConnectAndAnalyze ==
    \E connected \in BOOLEAN, cross \in CrossReplies :
    \E table_names \in (IF connected THEN TableLists ELSE {<<>>}) :
    \E answers \in [DOMAIN table_names -> Replies] :
        /\ output_txt' = analyze_databricks_tables(output_txt, connected, table_names,
                                                   cross, answers)
        /\ issues' = extract_issues_from_txt(output_txt')
        /\ llm_output' = "Databricks analysis complete. Issues extracted."
        /\ backend' = [mode |-> "databricks", connected |-> connected,
                       names |-> table_names, cross |-> cross, tables |-> answers]
        /\ shown' = NoFix
        /\ raised' = "none"
        /\ UNCHANGED <<doc, parsed>>

Next == AnalyzeUploadedFiles \/ ConnectAndAnalyze

Spec == Init /\ [][Next]_vars

(***************************************************************************)
(* Claims about analysis runs. backend holds the answers of the last run;  *)
(* the texts below are what that run writes for them.                      *)
(***************************************************************************)

Heading(b) ==
    IF b.mode = "csv" THEN "Cross-file Analysis:\n" ELSE "Cross-table Analysis:\n"
Prefix(b) ==
    IF b.mode = "csv" THEN "Analysis for file: " ELSE "Analysis for table: "

CrossText(b)      == Heading(b) \o b.cross.content \o Rule
HeaderLine(b, i)  == Prefix(b) \o b.names[i] \o "\n"
SectionText(b, i) == HeaderLine(b, i) \o b.tables[i].content \o Rule

\* The sections of the tables in keep, in table order.
RECURSIVE SectionsText(_, _, _)
SectionsText(b, keep, i) ==
    IF i > Len(b.names) THEN ""
    ELSE (IF i \in keep THEN SectionText(b, i) ELSE "") \o SectionsText(b, keep, i + 1)

\* A reply that carries a narrative: the expected shape, content not blank.
Proper(r) == r.kind = "content" /\ Strip(r.content) # ""

\* C6: after a run the file holds only text that run wrote (it was truncated
\* at the start of the run), whatever calls failed, and the session's issue
\* list holds only issues of that run's narratives.
C6_NoTextOfEarlierRun ==
    backend.mode # "none" =>
        /\ output_txt.exists =>
              \E keepCross \in {k \in BOOLEAN : k => Answered(backend.cross)},
                 keep \in SUBSET {i \in DOMAIN backend.names : Answered(backend.tables[i])} :
                  output_txt.content =
                      (IF keepCross THEN CrossText(backend) ELSE "")
                          \o SectionsText(backend, keep, 1)
        /\ \A n \in DOMAIN issues :
              \/ Answered(backend.cross) /\ Contains(backend.cross.content, issues[n].title)
              \/ \E i \in DOMAIN backend.names :
                    /\ Answered(backend.tables[i])
                    /\ Contains(backend.tables[i].content, issues[n].title)

\* C7: every table whose own call brought a narrative has its section in the
\* file, in table order, whatever became of the other calls of the run.
C7_FailedCallLeavesSiblings ==
    (backend.mode # "none" /\ backend.connected) =>
        LET done == {i \in DOMAIN backend.names : Proper(backend.tables[i])}
        IN  /\ \A i \in done :
                  /\ output_txt.exists
                  /\ Contains(output_txt.content, SectionText(backend, i))
            /\ \A i, j \in done :
                  i < j => Find(output_txt.content, SectionText(backend, i))
                               < Find(output_txt.content, SectionText(backend, j))

\* C8: a reply without choices, with an empty choices array, or with blank
\* content puts no section of that table (no header line) into the file.
C8_DeviatingReplyWritesNoSection ==
    (backend.mode # "none" /\ backend.connected /\ Answered(backend.cross)) =>
        \A i \in DOMAIN backend.names :
            ~Proper(backend.tables[i])
                => ~Contains(output_txt.content, HeaderLine(backend, i))
====
